---- MODULE Spec2Model ----
(***************************************************************************)
(* The job pipeline of the log platform: upload_log (backend/main.py)      *)
(* stores a Job document and hands a task to the broker, process_log_file  *)
(* (backend/celery_worker.py) parses, scores, inserts the entries and      *)
(* updates the Job document, get_job_status (backend/main.py) reads it.    *)
(*                                                                         *)
(* The two Mongo collections are modelled as they are used: db.jobs is a   *)
(* sequence of documents in insertion order (no unique index on job_id;    *)
(* update_one and find_one act on the first match), db.logs is a set of    *)
(* documents, each with the _id its insert gave it. Every database call    *)
(* and the hand-off to the broker either succeeds or raises.               *)
(*                                                                         *)
(* ask_ai (backend/main.py) streams token events and one terminal event    *)
(* over what db.logs holds, with the analysis of AIAnalyzer                *)
(* (backend/ai_analysis.py), whose collaborator may fail; the consumer of   *)
(* the stream may disconnect. get_logs (backend/main.py) lists db.logs by   *)
(* filters and pages; build_faiss_index and search_similar                 *)
(* (backend/ai_analysis.py) keep and search the analyzer's index.          *)
(***************************************************************************)
EXTENDS Integers, Sequences, FiniteSets, TLC

\* ------------------------------------------------------------------ bounds
MaxUploads == 2         \* upload requests made
MaxClock == 2           \* the wall clock runs over 0..MaxClock ticks
TicksPerSecond == 2     \* clock ticks in one second
MaxExecs == 2           \* executions of process_log_file started
MaxOversize == 1        \* lines beyond MAX_LINES of an oversize upload

\* --------------------------------------------------------------- constants
\* LogParser's configurable maximum line count per call.
MAX_LINES == 2

VARIABLES
    clock,      \* datetime.now(), in ticks
    requests,   \* the /upload-log requests made so far, each with its position
    jobs,       \* db.jobs
    logs,       \* db.logs
    msgs,       \* the task messages process_log_file.delay() published
    pending,    \* pending[m]: copies of message m waiting in the broker queue
    execs,      \* execs[m]: the executions of process_log_file for message m
    response,   \* the response of GET /jobs/{job_id} or GET /logs, if the
                \* last step was one
    writer,     \* history: writer[i] is the execution that last updated jobs[i]
    stream,     \* the event stream of a POST /ask-ai request and what it sent
    analyzer    \* the AIAnalyzer: its index, its id_map, its last search

vars ==
    <<clock, requests, jobs, logs, msgs, pending, execs, response, writer,
      stream, analyzer>>

\* ------------------------------------------------------------------ inputs
\* A line of an upload, by what the parser makes of it: whitespace only, or
\* the canonical pattern with level token ERROR.
LineKinds == {"blank", "error"}

SeqsUpTo(S, n) == UNION {[1..k -> S] : k \in 0..n}

\* The parser rejects by line count alone, so an oversize upload is
\* represented by lines of one kind.
Contents ==
    SeqsUpTo(LineKinds, MAX_LINES)
        \cup {[i \in 1..(MAX_LINES + k) |-> "error"] : k \in 1..MaxOversize}

Filenames == {"app.log"}

\* ------------------------------------------------------------ LogParser
\* parser.py is not part of the sources; modelled from its contract.
SizeLimitExceeded == "SizeLimitExceeded: too many lines"

RECURSIVE SelectIdx(_, _)
\* The indexes of the non-blank lines of content[1..n], in order.
SelectIdx(content, n) ==
    IF n = 0 THEN <<>>
    ELSE IF content[n] = "blank" THEN SelectIdx(content, n - 1)
         ELSE Append(SelectIdx(content, n - 1), n)

\* The timestamp of an entry whose line has none that is recognisable.
NoTime == 0

\* A line of the canonical pattern carries its position in the file as its
\* timestamp and names the one service that logs errors.
parse_line(content, i) ==
    [line |-> i,
     timestamp |-> IF content[i] = "error" THEN i ELSE NoTime,
     level |-> IF content[i] = "error" THEN "ERROR" ELSE "UNKNOWN",
     service |-> IF content[i] = "error" THEN "payment-svc" ELSE "unknown",
     anomaly_score |-> 0]

parse_raises(content) == Len(content) > MAX_LINES

parse_file(content) ==
    LET idx == SelectIdx(content, Len(content))
    IN  [k \in 1..Len(idx) |-> parse_line(content, idx[k])]

\* -------------------------------------------------------- AnomalyDetector
\* anomaly.py is not part of the sources; modelled from its contract. Scores
\* are in tenths. A batch below the minimum sample count (every batch of at
\* most MAX_LINES entries) gets the level-only heuristic.
level_score(level) ==
    IF level = "ERROR" THEN 5 ELSE IF level = "CRITICAL" THEN 8 ELSE 0

compute_anomaly_score(entries) ==
    [k \in 1..Len(entries) |->
        [entries[k] EXCEPT !.anomaly_score = level_score(entries[k].level)]]

\* ------------------------------------------------------------ collections
HasJob(coll, job_id) == \E i \in 1..Len(coll) : coll[i].job_id = job_id

FirstMatch(coll, job_id) ==
    CHOOSE i \in 1..Len(coll) :
        /\ coll[i].job_id = job_id
        /\ \A k \in 1..(i - 1) : coll[k].job_id # job_id

\* update_one({"job_id": job_id}, {"$set": fields}): the first document that
\* matches gets the fields; no document matching changes nothing.
update_one(coll, job_id, fields) ==
    IF HasJob(coll, job_id)
    THEN [coll EXCEPT ![FirstMatch(coll, job_id)] = fields @@ @]
    ELSE coll

Get(doc, key, default) == IF key \in DOMAIN doc THEN doc[key] ELSE default

NoResponse == [status_code |-> 0]
NoExec == <<0, 0>>

\* No /ask-ai request has been made.
NoStream ==
    [pc |-> "idle", query |-> <<>>, log_ids |-> [valid |-> TRUE, ids |-> {}],
     events |-> <<>>, ctx |-> [n |-> 0], words |-> 0, reply |-> "None",
     analysis |-> [kind |-> "None"], result |-> [cause |-> "None"],
     exc |-> "None", cancelled |-> FALSE]

NoResult == [status |-> "none"]

\* ai_analysis.py lines 13-14: no index has been built.
NoAnalyzer ==
    [built |-> FALSE, index |-> <<>>, id_map |-> <<>>, result |-> NoResult]

\* ------------------------------------------------------------------- Init
Init ==
    /\ clock = 0
    /\ requests = <<>>
    /\ jobs = <<>>
    /\ logs = {}
    /\ msgs = <<>>
    /\ pending = <<>>
    /\ execs = <<>>
    /\ response = NoResponse
    /\ writer = <<>>
    /\ stream = NoStream
    /\ analyzer = NoAnalyzer

\* ------------------------------------------------------------------ clock
\* Only upload_log reads the clock: time is counted from the first upload
\* and runs while uploads may come.
Tick ==
    /\ clock < MaxClock
    /\ 1 <= Len(requests)
    /\ Len(requests) < MaxUploads
    /\ clock' = clock + 1
    /\ response' = NoResponse
    /\ UNCHANGED <<stream, analyzer>>
    /\ UNCHANGED <<requests, jobs, logs, msgs, pending, execs, writer>>

\* ------------------------------------------------------------- upload_log
\* job_id = f"JOB-{datetime.now().strftime('%Y%m%d%H%M%S')}": the time with
\* everything below the second dropped.
NewJobId(now) == now \div TicksPerSecond

job_data(job_id, filename, now) ==
    [job_id |-> job_id, filename |-> filename, status |-> "queued",
     created_at |-> now]

\* An upload that goes on to the hand-off when insert_one has raised.
UploadCreate_swallow ==
    /\ Len(requests) < MaxUploads
    /\ \E content \in Contents, filename \in Filenames, ok \in BOOLEAN :
        LET job_id == NewJobId(clock)
            req == [job_id |-> job_id, filename |-> filename,
                    content |-> content]
        IN  /\ IF ok
               THEN /\ jobs' = Append(jobs, job_data(job_id, filename, clock))
                    /\ writer' = Append(writer, NoExec)
               ELSE UNCHANGED <<jobs, writer>>
            /\ requests' = Append(requests, [pc |-> "created"] @@ req)
    /\ response' = NoResponse
    /\ UNCHANGED <<stream, analyzer>>
    /\ UNCHANGED <<clock, logs, msgs, pending, execs>>

\* Lines 91-101: the job id, the document, insert_one (which may raise).
UploadCreate ==
    /\ Len(requests) < MaxUploads
    /\ \E content \in Contents, filename \in Filenames, ok \in BOOLEAN :
        LET job_id == NewJobId(clock)
            req == [job_id |-> job_id, filename |-> filename,
                    content |-> content]
        IN  IF ok
            THEN /\ jobs' = Append(jobs, job_data(job_id, filename, clock))
                 /\ writer' = Append(writer, NoExec)
                 /\ requests' = Append(requests, [pc |-> "created"] @@ req)
            ELSE /\ UNCHANGED <<jobs, writer>>
                 /\ requests' =
                        Append(requests, [pc |-> "insert_failed"] @@ req)
    /\ response' = NoResponse
    /\ UNCHANGED <<stream, analyzer>>
    /\ UNCHANGED <<clock, logs, msgs, pending, execs>>

\* The task message of a request: delay(job_id, content, filename).
task_message(req) ==
    [job_id |-> req.job_id, content |-> req.content, filename |-> req.filename]

\* An upload that answers with the job id whether or not delay() raised.
UploadDispatch_swallow(r) ==
    /\ requests[r].pc = "created"
    /\ \E ok \in BOOLEAN :
        IF ok
        THEN /\ msgs' = Append(msgs, task_message(requests[r]))
             /\ pending' = Append(pending, 1)
             /\ execs' = Append(execs, <<>>)
        ELSE UNCHANGED <<msgs, pending, execs>>
    /\ requests' = [requests EXCEPT ![r].pc = "returned"]
    /\ response' = NoResponse
    /\ UNCHANGED <<stream, analyzer>>
    /\ UNCHANGED <<clock, jobs, logs, writer>>

\* Lines 103-114: read the file, delay() (which may raise), the response.
UploadDispatch(r) ==
    /\ requests[r].pc = "created"
    /\ \E ok \in BOOLEAN :
        IF ok
        THEN /\ msgs' = Append(msgs, task_message(requests[r]))
             /\ pending' = Append(pending, 1)
             /\ execs' = Append(execs, <<>>)
             /\ requests' = [requests EXCEPT ![r].pc = "returned"]
        ELSE /\ requests' = [requests EXCEPT ![r].pc = "dispatch_failed"]
             /\ UNCHANGED <<msgs, pending, execs>>
    /\ response' = NoResponse
    /\ UNCHANGED <<stream, analyzer>>
    /\ UNCHANGED <<clock, jobs, logs, writer>>

\* ---------------------------------------------------------- the broker
RECURSIVE Started(_)
\* The executions started for the messages 1..n.
Started(n) == IF n = 0 THEN 0 ELSE Started(n - 1) + Len(execs[n])

RECURSIVE Queued(_)
\* The copies of the messages 1..n waiting in the queue.
Queued(n) == IF n = 0 THEN 0 ELSE Queued(n - 1) + pending[n]

\* At-least-once delivery: a message already delivered is queued again.
Redeliver(m) ==
    /\ Len(execs[m]) >= 1
    /\ Started(Len(msgs)) + Queued(Len(msgs)) < MaxExecs
    /\ pending' = [pending EXCEPT ![m] = @ + 1]
    /\ response' = NoResponse
    /\ UNCHANGED <<stream, analyzer>>
    /\ UNCHANGED <<clock, requests, jobs, logs, msgs, execs, writer>>

\* ------------------------------------------------------ process_log_file
BulkWriteError == "BulkWriteError: batch op errors occurred"
AutoReconnect == "AutoReconnect: connection closed"

\* A scorer failure that leaves the task with no entries.
scored_or_parsed_drop(parsed_logs, scorer_raised) ==
    IF scorer_raised THEN <<>> ELSE compute_anomaly_score(parsed_logs)

\* A scorer failure that marks the entries as unscored with a score of -1.
scored_or_parsed_mark(parsed_logs, scorer_raised) ==
    IF scorer_raised
    THEN [k \in 1..Len(parsed_logs) |->
            [parsed_logs[k] EXCEPT !.anomaly_score = -1]]
    ELSE compute_anomaly_score(parsed_logs)

\* Lines 46-50: a scorer that raises leaves the parsed entries as they are.
scored_or_parsed(parsed_logs, scorer_raised) ==
    IF scorer_raised THEN parsed_logs ELSE compute_anomaly_score(parsed_logs)

\* Line 53: the insert of an empty batch is skipped.
after_scoring(scored_logs) ==
    IF scored_logs # <<>> THEN "insert" ELSE "complete"

\* A task that keeps the entries of the lines within the limit when the
\* parser signals the size limit, and stores them.
task_start_keep(content, scorer_raised) ==
    IF parse_raises(content)
    THEN [pc |-> "insert",
          scored_logs |-> parse_file(SubSeq(content, 1, MAX_LINES)),
          scorer_raised |-> FALSE,
          exc |-> SizeLimitExceeded, result |-> "STARTED"]
    ELSE LET scored_logs ==
                scored_or_parsed(parse_file(content), scorer_raised)
         IN  [pc |-> after_scoring(scored_logs), scored_logs |-> scored_logs,
              scorer_raised |-> scorer_raised,
              exc |-> "None", result |-> "STARTED"]

\* Lines 37-50: the task up to its first database call: parse (which may
\* signal the size limit), then score (whose exception is swallowed).
task_start(content, scorer_raised) ==
    IF parse_raises(content)
    THEN [pc |-> "except", scored_logs |-> <<>>, scorer_raised |-> FALSE,
          exc |-> SizeLimitExceeded, result |-> "STARTED"]
    ELSE LET scored_logs ==
                scored_or_parsed(parse_file(content), scorer_raised)
         IN  [pc |-> after_scoring(scored_logs), scored_logs |-> scored_logs,
              scorer_raised |-> scorer_raised,
              exc |-> "None", result |-> "STARTED"]

\* A task that marks its job as processing when it is picked up.
StartTask_mark(m) ==
    /\ pending[m] > 0
    /\ Started(Len(msgs)) < MaxExecs
    /\ pending' = [pending EXCEPT ![m] = @ - 1]
    /\ jobs' = update_one(jobs, msgs[m].job_id, [status |-> "processing"])
    /\ \E scorer_raised \in BOOLEAN :
        /\ parse_raises(msgs[m].content) => ~scorer_raised
        /\ execs' = [execs EXCEPT
                ![m] = Append(@, task_start(msgs[m].content, scorer_raised))]
    /\ response' = NoResponse
    /\ UNCHANGED <<stream, analyzer>>
    /\ UNCHANGED <<clock, requests, logs, msgs, writer>>

\* Lines 31-50: a worker takes a copy of message m off the queue and starts
\* the task.
StartTask(m) ==
    /\ pending[m] > 0
    /\ Started(Len(msgs)) < MaxExecs
    /\ pending' = [pending EXCEPT ![m] = @ - 1]
    /\ \E scorer_raised \in BOOLEAN :
        /\ parse_raises(msgs[m].content) => ~scorer_raised
        /\ execs' = [execs EXCEPT
                ![m] = Append(@, task_start(msgs[m].content, scorer_raised))]
    /\ response' = NoResponse
    /\ UNCHANGED <<stream, analyzer>>
    /\ UNCHANGED <<clock, requests, jobs, logs, msgs, writer>>

\* An insert keyed by the message and the position of the entry: a second
\* execution writes over the documents of the first.
Docs_upsert(e, scored_logs, k) ==
    {[_id |-> <<<<e[1], 1>>, i>>] @@ scored_logs[i] : i \in 1..k}

\* The documents insert_many makes of the first k entries: each entry with
\* the _id the insert gives it.
Docs(e, scored_logs, k) ==
    {[_id |-> <<e, i>>] @@ scored_logs[i] : i \in 1..k}

\* An insert whose error is swallowed: the task goes on to the "completed"
\* update with only the first k entries inserted.
InsertLogs_swallow(m, d) ==
    /\ execs[m][d].pc = "insert"
    /\ \E k \in 0..Len(execs[m][d].scored_logs) :
        logs' = logs \cup Docs(<<m, d>>, execs[m][d].scored_logs, k)
    /\ execs' = [execs EXCEPT ![m][d].pc = "complete"]
    /\ response' = NoResponse
    /\ UNCHANGED <<stream, analyzer>>
    /\ UNCHANGED <<clock, requests, jobs, msgs, pending, writer>>

\* Lines 52-54: insert_many is ordered: it inserts all the entries, or raises
\* with the entries before the failing one inserted.
InsertLogs(m, d) ==
    /\ execs[m][d].pc = "insert"
    /\ LET n == Len(execs[m][d].scored_logs)
       IN  \E k \in 0..n :
            /\ logs' = logs \cup Docs(<<m, d>>, execs[m][d].scored_logs, k)
            /\ execs' = IF k = n
                        THEN [execs EXCEPT ![m][d].pc = "complete"]
                        ELSE [execs EXCEPT ![m][d].pc = "except",
                                           ![m][d].exc = BulkWriteError]
    /\ response' = NoResponse
    /\ UNCHANGED <<stream, analyzer>>
    /\ UNCHANGED <<clock, requests, jobs, msgs, pending, writer>>

\* An update that counts one entry too many.
completed_fields_off_by_one(scored_logs, filename) ==
    [status |-> "completed", processed_count |-> Len(scored_logs) + 1,
     filename |-> filename]

\* An update that counts only the entries whose line was recognised.
completed_fields_known_only(scored_logs, filename) ==
    [status |-> "completed",
     processed_count |->
        Cardinality({k \in 1..Len(scored_logs) :
                        scored_logs[k].level # "UNKNOWN"}),
     filename |-> filename]

\* Lines 59-64: the fields of the "completed" update.
completed_fields(scored_logs, filename) ==
    [status |-> "completed", processed_count |-> Len(scored_logs),
     filename |-> filename]

\* A handler that puts the job back in line for a retry.
failed_fields_requeue(exc) == [status |-> "queued", error |-> exc]

\* Lines 72-77: the fields of the "failed" update.
failed_fields(exc) == [status |-> "failed", error |-> exc]

Wrote(e, job_id) ==
    IF HasJob(jobs, job_id)
    THEN [writer EXCEPT ![FirstMatch(jobs, job_id)] = e]
    ELSE writer

\* Lines 56-66: the "completed" update, after which the task returns; an
\* update that raises enters the handler.
MarkCompleted(m, d) ==
    /\ execs[m][d].pc = "complete"
    /\ \E ok \in BOOLEAN :
        IF ok
        THEN /\ jobs' = update_one(jobs, msgs[m].job_id,
                    completed_fields(execs[m][d].scored_logs, msgs[m].filename))
             /\ writer' = Wrote(<<m, d>>, msgs[m].job_id)
             /\ execs' = [execs EXCEPT ![m][d].pc = "done",
                                       ![m][d].result = "SUCCESS"]
        ELSE /\ execs' = [execs EXCEPT ![m][d].pc = "except",
                                       ![m][d].exc = AutoReconnect]
             /\ UNCHANGED <<jobs, writer>>
    /\ response' = NoResponse
    /\ UNCHANGED <<stream, analyzer>>
    /\ UNCHANGED <<clock, requests, logs, msgs, pending>>

\* A handler that does not raise the exception again.
MarkFailed_swallow(m, d) ==
    /\ execs[m][d].pc = "except"
    /\ \E ok \in BOOLEAN :
        IF ok
        THEN /\ jobs' = update_one(jobs, msgs[m].job_id,
                                   failed_fields(execs[m][d].exc))
             /\ writer' = Wrote(<<m, d>>, msgs[m].job_id)
        ELSE UNCHANGED <<jobs, writer>>
    /\ execs' = [execs EXCEPT ![m][d].pc = "done", ![m][d].result = "SUCCESS"]
    /\ response' = NoResponse
    /\ UNCHANGED <<stream, analyzer>>
    /\ UNCHANGED <<clock, requests, logs, msgs, pending>>

\* Lines 68-80: the handler: the "failed" update, then the exception is raised
\* again. An update that raises here leaves the handler with the document
\* untouched.
MarkFailed(m, d) ==
    /\ execs[m][d].pc = "except"
    /\ \E ok \in BOOLEAN :
        IF ok
        THEN /\ jobs' = update_one(jobs, msgs[m].job_id,
                                   failed_fields(execs[m][d].exc))
             /\ writer' = Wrote(<<m, d>>, msgs[m].job_id)
        ELSE UNCHANGED <<jobs, writer>>
    /\ execs' = [execs EXCEPT ![m][d].pc = "done", ![m][d].result = "FAILURE"]
    /\ response' = NoResponse
    /\ UNCHANGED <<stream, analyzer>>
    /\ UNCHANGED <<clock, requests, logs, msgs, pending>>

\* ---------------------------------------------------------- get_job_status
JobIds == 0..(MaxClock \div TicksPerSecond)

\* A status query that answers with the status the upload answered with.
get_job_status_stale(job_id) ==
    IF ~HasJob(jobs, job_id)
    THEN [status_code |-> 404, job_id |-> job_id]
    ELSE LET job == jobs[FirstMatch(jobs, job_id)]
         IN  [status_code |-> 200,
              job_id |-> job.job_id,
              filename |-> job.filename,
              status |-> "queued",
              created_at |-> job.created_at,
              processed_count |-> Get(job, "processed_count", 0),
              error |-> Get(job, "error", "None")]

\* Lines 116-131: find_one gives the first document with the job id.
get_job_status(job_id) ==
    IF ~HasJob(jobs, job_id)
    THEN [status_code |-> 404, job_id |-> job_id]
    ELSE LET job == jobs[FirstMatch(jobs, job_id)]
         IN  [status_code |-> 200,
              job_id |-> job.job_id,
              filename |-> job.filename,
              status |-> job.status,
              created_at |-> job.created_at,
              processed_count |-> Get(job, "processed_count", 0),
              error |-> Get(job, "error", "None")]

\* A status query that stamps the document it read.
GetJobStatus_touch(job_id) ==
    /\ response' = get_job_status(job_id)
    /\ jobs' = update_one(jobs, job_id, [polled_at |-> clock])
    /\ UNCHANGED <<stream, analyzer>>
    /\ UNCHANGED <<clock, requests, logs, msgs, pending, execs, writer>>

GetJobStatus(job_id) ==
    /\ response' = get_job_status(job_id)
    /\ UNCHANGED <<stream, analyzer>>
    /\ UNCHANGED <<clock, requests, jobs, logs, msgs, pending, execs, writer>>

\* ------------------------------------------------------------ AIAnalyzer
\* What the chat completion call does: it raises, or its reply is text that
\* is not JSON, a JSON array, a JSON object with only a cause, or the JSON
\* object asked for.
Replies == {"raises", "not_json", "json_array", "json_partial", "json_full"}

json_loads(reply) ==
    CASE reply = "json_array" -> [kind |-> "array"]
      [] reply = "json_partial" ->
            [kind |-> "object", fields |-> [cause |-> "pool exhausted"]]
      [] OTHER ->
            [kind |-> "object",
             fields |-> [cause |-> "pool exhausted",
                         impact |-> "payments fail",
                         solution |-> "raise the pool size",
                         confidence |-> "HIGH",
                         severity |-> "CRITICAL",
                         affected_services |-> {"payment-svc"}]]

\* ai_analysis.py lines 111-118: the local fallback object.
Fallback ==
    [cause |-> "Manual review required: AI analysis encountered an error.",
     impact |-> "Unconfirmed",
     solution |-> "Check service logs directly for immediate resolution.",
     confidence |-> "LOW",
     severity |-> "HIGH",
     affected_services |-> {}]

\* An analysis that lets the collaborator's exception out.
analyze_root_cause_reraise(reply) ==
    IF reply \in {"raises", "not_json"}
    THEN [raised |-> TRUE, analysis |-> [kind |-> "None"]]
    ELSE [raised |-> FALSE, analysis |-> json_loads(reply)]

\* ai_analysis.py lines 96-120: the call and json.loads are in one try block
\* whose handler substitutes the fallback object.
analyze_root_cause(reply) ==
    IF reply \in {"raises", "not_json"}
    THEN [raised |-> FALSE, analysis |-> [kind |-> "object", fields |-> Fallback]]
    ELSE [raised |-> FALSE, analysis |-> json_loads(reply)]

\* ----------------------------------------------------------------- /ask-ai
\* The words of the response text that do not depend on the request.
FixedWords == 15

\* The query, as its words.
Queries == {<<"why">>, <<"why", "now">>}

\* log_ids: none, the id of a stored document, or a string that is not an
\* ObjectId.
LogIdLists ==
    {[valid |-> TRUE, ids |-> {}],
     [valid |-> TRUE, ids |-> {<<<<1, 1>>, 1>>}],
     [valid |-> FALSE, ids |-> {}]}

InvalidId == "InvalidId: not a valid ObjectId"
ServerSelectionTimeoutError == "ServerSelectionTimeoutError: no servers"

\* main.py lines 261-269: the documents the stream looks at.
recent_logs(log_ids) ==
    IF log_ids.ids # {} THEN {l \in logs : l._id \in log_ids.ids} ELSE logs

\* main.py lines 272-294: the context built from the documents.
context(recent) ==
    LET errors == Cardinality({l \in recent : Get(l, "level", "None") = "ERROR"})
        warns == Cardinality({l \in recent : Get(l, "level", "None") = "WARN"})
        services == {Get(l, "service", "unknown") : l \in recent}
        anomalies == Cardinality({l \in recent : Get(l, "anomaly_score", 0) >= 7})
    IN  [n |-> Cardinality(recent),
         errors |-> errors,
         warns |-> warns,
         services |-> services,
         anomalies |-> anomalies,
         cause |-> IF errors > 0 THEN "Found error(s) in recent logs"
                   ELSE IF warns > 0
                        THEN "Found warning(s) but no errors in recent logs"
                        ELSE "No errors or warnings detected in recent logs",
         confidence |-> IF errors > 5 THEN "HIGH"
                        ELSE IF errors > 0 THEN "MEDIUM" ELSE "LOW",
         severity |-> IF errors > 10 THEN "CRITICAL"
                      ELSE IF errors > 3 THEN "HIGH" ELSE "MEDIUM",
         recommendation |-> IF anomalies > 0
                            THEN "Investigate anomalous log entries"
                            ELSE "No significant anomalies detected",
         impact |-> "errors affecting service(s)"]

\* main.py lines 297-303: response_text.split(" "): the fixed words, one more
\* for each space of the query and of the list of services.
words_of(query, ctx) ==
    FixedWords + (Len(query) - 1)
        + (IF ctx.services = {} THEN 0 ELSE Cardinality(ctx.services) - 1)

\* main.py lines 316-324: the result made of the analysis.
ai_result(ctx, fields) ==
    [cause |-> Get(fields, "cause", ctx.cause),
     confidence |-> ctx.confidence,
     severity |-> ctx.severity,
     affected_services |-> ctx.services,
     recommendation |-> Get(fields, "solution", ctx.recommendation),
     impact |-> Get(fields, "impact", ctx.impact),
     solution |-> Get(fields, "solution",
                      "Review error logs and check service health dashboards")]

\* main.py lines 327-335: the result made without the analysis.
local_result(ctx) ==
    [cause |-> ctx.cause,
     confidence |-> ctx.confidence,
     severity |-> ctx.severity,
     affected_services |-> ctx.services,
     recommendation |-> ctx.recommendation,
     impact |-> ctx.impact,
     solution |-> "Review error logs manually (AI service unavailable)"]

\* main.py lines 252-258, 342: the request starts an event stream.
AskAI ==
    /\ stream.pc = "idle"
    /\ \E query \in Queries, log_ids \in LogIdLists :
        stream' = [stream EXCEPT !.pc = "fetch", !.query = query,
                                 !.log_ids = log_ids]
    /\ UNCHANGED <<clock, requests, jobs, logs, msgs, pending, execs,
                   response, writer, analyzer>>

\* main.py lines 259-303: ObjectId() of a malformed id raises, find() may
\* raise; otherwise the context and the response text are built.
AskFetch ==
    /\ stream.pc = "fetch"
    /\ \E ok \in BOOLEAN :
        IF ~stream.log_ids.valid
        THEN stream' = [stream EXCEPT !.pc = "except", !.exc = InvalidId]
        ELSE IF ~ok
             THEN stream' = [stream EXCEPT
                                !.pc = "except",
                                !.exc = ServerSelectionTimeoutError]
             ELSE LET ctx == context(recent_logs(stream.log_ids))
                  IN  stream' = [stream EXCEPT
                                    !.pc = "tokens",
                                    !.ctx = ctx,
                                    !.words = words_of(stream.query, ctx)]
    /\ UNCHANGED <<clock, requests, jobs, logs, msgs, pending, execs,
                   response, writer, analyzer>>

\* main.py lines 304-307: one token event for each word, in order.
AskToken ==
    /\ stream.pc = "tokens"
    /\ Len(stream.events) < stream.words
    /\ stream' = [stream EXCEPT
                    !.events = Append(@, [token |-> Len(@) + 1])]
    /\ UNCHANGED <<clock, requests, jobs, logs, msgs, pending, execs,
                   response, writer, analyzer>>

\* main.py lines 311-335: the analysis; when it raises, or when what it
\* returns has no get(), the handler makes the result without it.
AskAnalyze ==
    /\ stream.pc = "tokens"
    /\ Len(stream.events) = stream.words
    /\ \E reply \in Replies :
        LET r == analyze_root_cause(reply)
        IN  stream' = [stream EXCEPT
                !.pc = IF r.raised THEN "ai_raised" ELSE "result",
                !.reply = reply,
                !.analysis = r.analysis,
                !.result = IF ~r.raised /\ r.analysis.kind = "object"
                           THEN ai_result(stream.ctx, r.analysis.fields)
                           ELSE local_result(stream.ctx)]
    /\ UNCHANGED <<clock, requests, jobs, logs, msgs, pending, execs,
                   response, writer, analyzer>>

\* A handler that sends the error event and goes on with the stream.
AskError_continue ==
    /\ stream.pc = "except"
    /\ stream' = [stream EXCEPT
                    !.pc = "result",
                    !.events = Append(@, [done |-> TRUE,
                                          result |-> [error |-> stream.exc]])]
    /\ UNCHANGED <<clock, requests, jobs, logs, msgs, pending, execs,
                   response, writer, analyzer>>

\* main.py line 337: the terminal event with the result.
AskDone ==
    /\ stream.pc \in {"result", "ai_raised"}
    /\ stream' = [stream EXCEPT
                    !.pc = "done",
                    !.events = Append(@, [done |-> TRUE,
                                          result |-> stream.result])]
    /\ UNCHANGED <<clock, requests, jobs, logs, msgs, pending, execs,
                   response, writer, analyzer>>

\* main.py lines 339-340: the terminal event with the error.
AskError ==
    /\ stream.pc = "except"
    /\ stream' = [stream EXCEPT
                    !.pc = "done",
                    !.events = Append(@, [done |-> TRUE,
                                          result |-> [error |-> stream.exc]])]
    /\ UNCHANGED <<clock, requests, jobs, logs, msgs, pending, execs,
                   response, writer, analyzer>>

\* ------------------------------------------------------------------- Next
Next ==
    \/ Tick
    \/ UploadCreate
    \/ \E r \in 1..Len(requests) : UploadDispatch(r)
    \/ \E m \in 1..Len(msgs) : Redeliver(m)
    \/ \E m \in 1..Len(msgs) : StartTask(m)
    \/ \E m \in 1..Len(msgs) : \E d \in 1..Len(execs[m]) : InsertLogs(m, d)
    \/ \E m \in 1..Len(msgs) : \E d \in 1..Len(execs[m]) : MarkCompleted(m, d)
    \/ \E m \in 1..Len(msgs) : \E d \in 1..Len(execs[m]) : MarkFailed(m, d)

\* The pipeline: uploads, the broker and the workers.
Spec == Init /\ [][Next]_vars

NextQ ==
    \/ Next
    \/ \E job_id \in JobIds : GetJobStatus(job_id)

\* The pipeline with status queries made at any time.
QuerySpec == Init /\ [][NextQ]_vars

\* ------------------------------------------------------- the worker alone
\* A line of an upload as the parser sees it: whitespace only, the canonical
\* pattern with level token ERROR, or no recognisable timestamp.
RichLineKinds == {"blank", "error", "garbage"}

RichContents ==
    SeqsUpTo(RichLineKinds, MAX_LINES)
        \cup {[i \in 1..(MAX_LINES + k) |-> "error"] : k \in 1..MaxOversize}

\* One upload has returned: its Job document is stored and its task message
\* is in the queue.
InitW ==
    \E content \in RichContents, filename \in Filenames :
        LET req == [job_id |-> NewJobId(0), filename |-> filename,
                    content |-> content]
        IN  /\ clock = 0
            /\ requests = <<[pc |-> "returned"] @@ req>>
            /\ jobs = <<job_data(req.job_id, filename, 0)>>
            /\ logs = {}
            /\ msgs = <<task_message(req)>>
            /\ pending = <<1>>
            /\ execs = << <<>> >>
            /\ response = NoResponse
            /\ writer = <<NoExec>>
            /\ stream = NoStream
            /\ analyzer = NoAnalyzer

NextW ==
    \/ \E m \in 1..Len(msgs) : Redeliver(m)
    \/ \E m \in 1..Len(msgs) : StartTask(m)
    \/ \E m \in 1..Len(msgs) : \E d \in 1..Len(execs[m]) : InsertLogs(m, d)
    \/ \E m \in 1..Len(msgs) : \E d \in 1..Len(execs[m]) : MarkCompleted(m, d)
    \/ \E m \in 1..Len(msgs) : \E d \in 1..Len(execs[m]) : MarkFailed(m, d)

\* The broker and the workers on the task of one upload, of any content.
WorkerSpec == InitW /\ [][NextW]_vars

\* ------------------------------------------------------ the /ask-ai stream
\* One upload has been processed to the end by one execution: the job is
\* completed and its entries are in db.logs.
InitA ==
    \E content \in SeqsUpTo(RichLineKinds, MAX_LINES),
       filename \in Filenames, scorer_raised \in BOOLEAN :
        LET req == [job_id |-> NewJobId(0), filename |-> filename,
                    content |-> content]
            exec == task_start(content, scorer_raised)
        IN  /\ clock = 0
            /\ requests = <<[pc |-> "returned"] @@ req>>
            /\ jobs = update_one(<<job_data(req.job_id, filename, 0)>>,
                        req.job_id,
                        completed_fields(exec.scored_logs, filename))
            /\ logs = Docs(<<1, 1>>, exec.scored_logs, Len(exec.scored_logs))
            /\ msgs = <<task_message(req)>>
            /\ pending = <<0>>
            /\ execs = <<<<[exec EXCEPT !.pc = "done",
                                       !.result = "SUCCESS"]>>>>
            /\ response = NoResponse
            /\ writer = <<<<1, 1>>>>
            /\ stream = NoStream
            /\ analyzer = NoAnalyzer

AskStep == AskFetch \/ AskToken \/ AskAnalyze \/ AskDone \/ AskError

NextA ==
    \/ AskAI
    \/ AskFetch
    \/ AskToken
    \/ AskAnalyze
    \/ AskDone
    \/ AskError

\* One /ask-ai request over a store that a completed job has filled.
AskSpec == InitA /\ [][NextA]_vars

\* ------------------------------------------------- ask_ai, cancelled
\* An except clause that catches the cancellation like any other exception.
AskCancel_caught ==
    /\ stream.pc \in {"fetch", "tokens"}
    /\ stream' = [stream EXCEPT !.pc = "except", !.exc = "CancelledError",
                                !.cancelled = TRUE]
    /\ UNCHANGED <<clock, requests, jobs, logs, msgs, pending, execs,
                   response, writer, analyzer>>

\* The consumer disconnects and the response task is cancelled. The
\* cancellation reaches event_stream where it is suspended: before its
\* first step, at the yield of a token or in the sleep after it (main.py
\* lines 306-307). CancelledError and GeneratorExit are not Exceptions, so
\* neither except clause (lines 325, 339) catches them.
AskCancel ==
    /\ stream.pc \in {"fetch", "tokens"}
    /\ stream' = [stream EXCEPT !.pc = "cancelled", !.cancelled = TRUE]
    /\ UNCHANGED <<clock, requests, jobs, logs, msgs, pending, execs,
                   response, writer, analyzer>>

NextC ==
    \/ NextA
    \/ AskCancel

\* One /ask-ai request whose consumer may disconnect.
CancelSpec == InitA /\ [][NextC]_vars

\* ------------------------------------- build_faiss_index, search_similar
\* An embedding is represented by one coordinate, the inner product of two
\* by their product.
Embeddings == 1..2

LogIds == {"a", "b"}

IndexSizes == 1..2

Ks == 1..3

APIConnectionError == "APIConnectionError: Connection error."

KeyError == "KeyError: -1"

\* ai_analysis.py lines 35-44: positions count from 0, as enumerate does.
build_faiss_index(embeddings, log_ids) ==
    [built |-> TRUE, index |-> embeddings, id_map |-> log_ids,
     result |-> NoResult]

BuildIndex ==
    /\ \E n \in IndexSizes :
        \E embeddings \in [0..(n - 1) -> Embeddings],
           log_ids \in [0..(n - 1) -> LogIds] :
            analyzer' = build_faiss_index(embeddings, log_ids)
    /\ response' = NoResponse
    /\ UNCHANGED <<clock, requests, jobs, logs, msgs, pending, execs, writer,
                   stream>>

\* IndexFlatIP.search(query, k): the positions by descending inner product
\* with the query, then -1 for each of the k results the index cannot give.
\* Each order of the positions by descending inner product is a result.
faiss_search(index, query, k) ==
    LET n == Cardinality(DOMAIN index)
        orders == {o \in [1..n -> DOMAIN index] :
                    /\ \A i, j \in 1..n : i # j => o[i] # o[j]
                    /\ \A i, j \in 1..n :
                        i < j => index[o[i]] * query >= index[o[j]] * query}
    IN  {[j \in 1..k |-> IF j <= n THEN o[j] ELSE -1] : o \in orders}

\* ai_analysis.py lines 46-65, with the embedding the API gave for the
\* query (ok: it gave one) and the labels the index gave.
search_similar(a, k, ok, query, labels) ==
    LET base == [k |-> k, query |-> query, labels |-> <<>>, ids |-> <<>>]
    IN  IF ~ok
        THEN [status |-> "raised", exc |-> APIConnectionError] @@ base
        ELSE IF ~a.built
        THEN [status |-> "returned", exc |-> "None"] @@ base
        ELSE IF \E j \in 1..k : labels[j] \notin DOMAIN a.id_map
        THEN [status |-> "raised", exc |-> KeyError, labels |-> labels]
                @@ base
        ELSE [status |-> "returned", exc |-> "None", labels |-> labels,
              ids |-> [j \in 1..k |-> a.id_map[labels[j]]]] @@ base

SearchSimilar ==
    /\ \E k \in Ks, ok \in BOOLEAN, query \in Embeddings :
        \E labels \in faiss_search(analyzer.index, query, k) :
            analyzer' = [analyzer EXCEPT
                !.result = search_similar(analyzer, k, ok, query, labels)]
    /\ response' = NoResponse
    /\ UNCHANGED <<clock, requests, jobs, logs, msgs, pending, execs, writer,
                   stream>>

NextS ==
    \/ BuildIndex
    \/ SearchSimilar

\* The analyzer's index, built and searched.
SearchSpec == Init /\ [][NextS]_vars

\* ------------------------------------------- upload_log, with validation
\* The pipeline above models the uploads upload_log accepts. Here the upload
\* comes with the file name and the size the client sent.
MAX_UPLOAD_BYTES == 10 * 1024 * 1024

UploadNames == {"app.log", "notes.txt", "data.csv", "app.LOG", "app.log.gz"}

UploadSizes ==
    {MAX_UPLOAD_BYTES - 1, MAX_UPLOAD_BYTES, MAX_UPLOAD_BYTES + 1}

\* str.endswith, on the file names of the model (it compares case by case).
endswith(filename, suffix) ==
    \/ filename = "app.log" /\ suffix = ".log"
    \/ filename = "notes.txt" /\ suffix = ".txt"
    \/ filename = "data.csv" /\ suffix = ".csv"
    \/ filename = "app.LOG" /\ suffix = ".LOG"
    \/ filename = "app.log.gz" /\ suffix = ".gz"

\* A validation that refuses a file of the maximum size.
validate_inclusive(filename, size) ==
    IF ~(endswith(filename, ".log") \/ endswith(filename, ".txt")) THEN 400
    ELSE IF size >= MAX_UPLOAD_BYTES THEN 413
    ELSE 0

\* Lines 84-89: the status code of the HTTPException raised, 0 if none is.
validate(filename, size) ==
    IF ~(endswith(filename, ".log") \/ endswith(filename, ".txt")) THEN 400
    ELSE IF size > MAX_UPLOAD_BYTES THEN 413
    ELSE 0

\* Lines 84-101: the validation, then the job id, the document, insert_one.
UploadValidateCreate ==
    /\ Len(requests) < MaxUploads
    /\ \E filename \in UploadNames, size \in UploadSizes :
        LET code == validate(filename, size)
        IN  IF code # 0
            THEN /\ requests' =
                        Append(requests,
                               [pc |-> "rejected", status_code |-> code,
                                filename |-> filename, size |-> size])
                 /\ UNCHANGED <<jobs, writer>>
            ELSE \E content \in SeqsUpTo(LineKinds, 1), ok \in BOOLEAN :
                    LET job_id == NewJobId(clock)
                        req == [job_id |-> job_id, filename |-> filename,
                                content |-> content, size |-> size]
                    IN  IF ok
                        THEN /\ jobs' = Append(jobs,
                                    job_data(job_id, filename, clock))
                             /\ writer' = Append(writer, NoExec)
                             /\ requests' = Append(requests,
                                    [pc |-> "created"] @@ req)
                        ELSE /\ UNCHANGED <<jobs, writer>>
                             /\ requests' = Append(requests,
                                    [pc |-> "insert_failed"] @@ req)
    /\ response' = NoResponse
    /\ UNCHANGED <<stream, analyzer>>
    /\ UNCHANGED <<clock, logs, msgs, pending, execs>>

NextU ==
    \/ Tick
    \/ UploadValidateCreate
    \/ \E r \in 1..Len(requests) : UploadDispatch(r)

\* The upload requests alone, each with a file name and a size.
UploadSpec == Init /\ [][NextU]_vars

\* --------------------------------------------------------------- get_logs
\* A parameter that is not given: None or the empty string for service,
\* level, start_time and end_time (NoTime for the two times), None for
\* min_anomaly_score. The search parameter is never given.
NoScore == -1

LogQueries ==
    [page : 1..3, page_size : 1..2,
     service : {"", "payment-svc"}, level : {"", "ERROR"},
     min_anomaly_score : {NoScore, 5},
     start_time : {NoTime, 2}, end_time : {NoTime, 2}]

\* Lines 164-167: the entry of filter_query under the key "timestamp"; the
\* second assignment replaces the first.
timestamp_filter(start_time, end_time) ==
    LET none == [op |-> "none", value |-> NoTime]
        after_start == IF start_time # NoTime
                       THEN [op |-> "$gte", value |-> start_time]
                       ELSE none
    IN  IF end_time # NoTime
        THEN [op |-> "$lte", value |-> end_time]
        ELSE after_start

\* Lines 145-167.
filter_query(q) ==
    [service |-> q.service, level |-> q.level,
     anomaly_score |-> q.min_anomaly_score,
     timestamp |-> timestamp_filter(q.start_time, q.end_time)]

\* A document matches filter_query; a comparison with a date matches no
\* document without one.
matches(doc, fq) ==
    /\ fq.service # "" => doc.service = fq.service
    /\ fq.level # "" => doc.level = fq.level
    /\ fq.anomaly_score # NoScore => doc.anomaly_score >= fq.anomaly_score
    /\ fq.timestamp.op = "$gte"
        => doc.timestamp # NoTime /\ doc.timestamp >= fq.timestamp.value
    /\ fq.timestamp.op = "$lte"
        => doc.timestamp # NoTime /\ doc.timestamp <= fq.timestamp.value

\* sort("timestamp", -1): the orders of the documents of S by descending
\* timestamp, entries without one last. The sort has no second key, so
\* documents of equal timestamp come in any order, and not in the same
\* order for every query.
SortedDesc(S) ==
    {o \in [1..Cardinality(S) -> S] :
        /\ \A i, j \in DOMAIN o : i # j => o[i] # o[j]
        /\ \A i, j \in DOMAIN o : i < j => o[i].timestamp >= o[j].timestamp}

\* Lines 20-30: the ObjectId becomes its string.
serialize_doc(doc) == [doc EXCEPT !._id = <<"str", @>>]

Min(a, b) == IF a <= b THEN a ELSE b

\* Lines 169-185: the page of the sorted documents and the counts.
get_logs(q, sorted) ==
    LET skip == (q.page - 1) * q.page_size
        limit == q.page_size
        total == Len(sorted)
        results == SubSeq(sorted, skip + 1, Min(skip + limit, total))
    IN  [status_code |-> 200,
         logs |-> [k \in 1..Len(results) |-> serialize_doc(results[k])],
         total |-> total,
         page |-> q.page,
         page_size |-> q.page_size,
         pages |-> (total + q.page_size - 1) \div q.page_size,
         request |-> q]

GetLogs ==
    /\ \E q \in LogQueries :
        \E sorted \in SortedDesc({doc \in logs : matches(doc, filter_query(q))}) :
            response' = get_logs(q, sorted)
    /\ UNCHANGED <<stream, analyzer>>
    /\ UNCHANGED <<clock, requests, jobs, logs, msgs, pending, execs, writer>>

\* One upload has been executed to the end, once or, redelivered, twice.
InitL ==
    \E content \in SeqsUpTo(RichLineKinds, MAX_LINES),
       filename \in Filenames, n \in 1..2 :
        LET req == [job_id |-> NewJobId(0), filename |-> filename,
                    content |-> content]
            exec == task_start(content, FALSE)
            done == [exec EXCEPT !.pc = "done", !.result = "SUCCESS"]
        IN  /\ clock = 0
            /\ requests = <<[pc |-> "returned"] @@ req>>
            /\ jobs = update_one(<<job_data(req.job_id, filename, 0)>>,
                        req.job_id,
                        completed_fields(exec.scored_logs, filename))
            /\ logs = UNION {Docs(<<1, d>>, exec.scored_logs,
                                  Len(exec.scored_logs)) : d \in 1..n}
            /\ msgs = <<task_message(req)>>
            /\ pending = <<0>>
            /\ execs = <<[d \in 1..n |-> done]>>
            /\ response = NoResponse
            /\ writer = <<<<1, n>>>>
            /\ stream = NoStream
            /\ analyzer = NoAnalyzer

NextL == GetLogs

\* The /logs queries over a store that a completed job has filled.
LogsSpec == InitL /\ [][NextL]_vars

\* ---------------------------------------------------------------- helpers
Execs == {e \in (1..Len(msgs)) \X (1..MaxExecs) : e[2] <= Len(execs[e[1]])}

Exec(e) == execs[e[1]][e[2]]

\* The Job document a job id stands for: the one find_one gives.
JobOf(coll, job_id) == coll[FirstMatch(coll, job_id)]

Terminal == {"completed", "failed"}

\* The documents in db.logs that execution e inserted.
InsertedBy(e) == {doc \in logs : doc._id[1] = e}

\* The documents in db.logs inserted by the executions of tasks of job_id.
LogsOfJob(job_id) == {doc \in logs : msgs[doc._id[1][1]].job_id = job_id}

\* Execution e makes its last step in this step.
Finishes(e) == Exec(e).pc # "done" /\ execs'[e[1]][e[2]].pc = "done"

\* ------------------------------------------------------------------ claims
\* C1: the status of a job never moves backward: once the stored status is
\* completed or failed it is never again queued or processing, and no step
\* makes the status of a stored Job document queued (only the submission's
\* insert of a new document writes queued).
C1_StatusNeverBackward ==
    [][\A job_id \in JobIds :
            HasJob(jobs, job_id) =>
                /\ HasJob(jobs', job_id)
                /\ JobOf(jobs, job_id).status \in Terminal
                        => JobOf(jobs', job_id).status \in Terminal
                /\ \A i \in 1..Len(jobs) :
                        jobs'[i].status \in {"queued", "processing"}
                            => jobs'[i].status = jobs[i].status]_vars

\* A job that a first execution has failed and that a second execution,
\* of the redelivered task, has updated again.
C1_Witness ==
    \E m \in 1..Len(msgs) :
        /\ Len(execs[m]) = 2
        /\ execs[m][1].pc = "done" /\ execs[m][1].result = "FAILURE"
        /\ execs[m][2].pc = "done"
        /\ writer[FirstMatch(jobs, msgs[m].job_id)] = <<m, 2>>
        /\ JobOf(jobs, msgs[m].job_id).status \in Terminal

\* C2: completed and failed are terminal: once the stored status of a job
\* is one of them, no later step changes it to a different value.
C2_TerminalIsFinal ==
    [][\A job_id \in JobIds :
            (HasJob(jobs, job_id) /\ JobOf(jobs, job_id).status \in Terminal)
                => JobOf(jobs', job_id).status = JobOf(jobs, job_id).status]_vars

\* No upload is between its insert and its hand-off, the queue is empty and
\* every execution has ended: nothing is left to run.
Quiescent ==
    /\ \A r \in 1..Len(requests) : requests[r].pc # "created"
    /\ \A m \in 1..Len(msgs) : pending[m] = 0
    /\ \A e \in Execs : Exec(e).pc = "done"

\* C3: every job whose upload returned a job id ends completed, with
\* processed_count the number of entries its content yields, or failed with
\* a non-empty error; stated for the states in which nothing is left to run:
\* no dispatched job is still queued there.
C3_EveryJobFinishes ==
    Quiescent =>
        \A r \in 1..Len(requests) :
            requests[r].pc = "returned" =>
                LET job == JobOf(jobs, requests[r].job_id)
                IN  \/ /\ job.status = "completed"
                       /\ Get(job, "processed_count", 0)
                            = Len(parse_file(requests[r].content))
                    \/ /\ job.status = "failed"
                       /\ Get(job, "error", "None") \notin {"None", ""}

\* C4 as stated: a completed job's processed_count is the number of log
\* documents in the store for that job, for any number of deliveries.
C4_CountEqualsStored ==
    \A job_id \in JobIds :
        (HasJob(jobs, job_id) /\ JobOf(jobs, job_id).status = "completed")
            => JobOf(jobs, job_id).processed_count
                    = Cardinality(LogsOfJob(job_id))

\* C4, amended: a completed job's processed_count is the number of log
\* documents inserted by the execution that wrote completed.
C4_CountOfWritingExecution ==
    \A i \in 1..Len(jobs) :
        jobs[i].status = "completed"
            => jobs[i].processed_count = Cardinality(InsertedBy(writer[i]))

\* A completed job of two entries for which the store holds more than two
\* documents: its task was delivered twice.
C4_Witness ==
    \E i \in 1..Len(jobs) :
        /\ jobs[i].status = "completed"
        /\ jobs[i].processed_count = 2
        /\ Cardinality(LogsOfJob(jobs[i].job_id)) > 2

\* C5: completed is written only after the insert of every entry of the
\* batch has returned in the same execution: the execution that wrote
\* completed has every entry of its batch in the store, and an execution
\* whose insert failed, wholly or partly, never ends in success nor leaves
\* completed behind.
C5_CompletedOnlyAfterInsert ==
    /\ \A i \in 1..Len(jobs) :
            jobs[i].status = "completed" =>
                /\ writer[i] \in Execs
                /\ Docs(writer[i], Exec(writer[i]).scored_logs,
                        Len(Exec(writer[i]).scored_logs)) \subseteq logs
    /\ \A e \in Execs :
            /\ Exec(e).pc = "done" /\ Exec(e).result = "SUCCESS"
                    => Docs(e, Exec(e).scored_logs, Len(Exec(e).scored_logs))
                            \subseteq logs
            /\ Cardinality(InsertedBy(e)) < Len(Exec(e).scored_logs)
                    => /\ Exec(e).result # "SUCCESS"
                       /\ \A i \in 1..Len(jobs) :
                            writer[i] = e => jobs[i].status # "completed"

\* An execution that has ended after its insert of two entries failed with
\* one of them inserted.
C5_Witness ==
    \E e \in Execs :
        /\ Exec(e).pc = "done"
        /\ Exec(e).exc = BulkWriteError
        /\ Len(Exec(e).scored_logs) = 2
        /\ Cardinality(InsertedBy(e)) = 1

\* C6: two distinct submissions get different job ids: no two Job documents
\* have the same job_id.
C6_JobIdsUnique ==
    \A i, k \in 1..Len(jobs) : i # k => jobs[i].job_id # jobs[k].job_id

\* The last step was a status query for a job id some upload has returned.
QueriedAfterSubmit ==
    /\ response # NoResponse
    /\ \E r \in 1..Len(requests) :
        requests[r].pc = "returned" /\ requests[r].job_id = response.job_id

\* C7 as stated: a status query made after the upload has returned the job
\* id answers queued, however fast the worker is.
C7_QueryAfterSubmitIsQueued ==
    QueriedAfterSubmit
        => response.status_code = 200 /\ response.status = "queued"

\* C7, amended: a status query made after the upload has returned the job id
\* finds the job, and answers queued exactly as long as no execution has
\* updated the Job document; after that it answers completed or failed.
C7_QueuedUntilWorkerWrites ==
    QueriedAfterSubmit =>
        /\ response.status_code = 200
        /\ response.status \in {"queued", "completed", "failed"}
        /\ response.status = "queued"
                <=> writer[FirstMatch(jobs, response.job_id)] = NoExec

\* A status query after the upload returned that answers completed.
C7_Witness ==
    /\ QueriedAfterSubmit
    /\ response.status_code = 200
    /\ response.status = "completed"

\* C8: an upload returns a job id only after its task has been handed to the
\* queue: the uploads that returned are as many as the messages published,
\* and each has its message.
C8_ReturnedMeansEnqueued ==
    /\ Cardinality({r \in 1..Len(requests) : requests[r].pc = "returned"})
            = Len(msgs)
    /\ \A r \in 1..Len(requests) :
            requests[r].pc = "returned"
                => \E m \in 1..Len(msgs) : msgs[m] = task_message(requests[r])

\* One upload has returned its job id and another has failed at the hand-off.
C8_Witness ==
    \E r, q \in 1..Len(requests) :
        requests[r].pc = "returned" /\ requests[q].pc = "dispatch_failed"

PersistenceErrors == {BulkWriteError, AutoReconnect}

\* C9: an execution in which the scorer raised and no database call failed
\* ends with every parsed entry in the store and the job completed, with
\* processed_count the number of parsed entries.
C9_ScorerFailureCompletes ==
    [][\A e \in Execs :
            (/\ Finishes(e)
             /\ Exec(e).scorer_raised
             /\ Exec(e).exc \notin PersistenceErrors)
                => LET parsed == parse_file(msgs[e[1]].content)
                       job == JobOf(jobs', msgs[e[1]].job_id)
                   IN  /\ Docs(e, parsed, Len(parsed)) \subseteq logs'
                       /\ job.status = "completed"
                       /\ job.processed_count = Len(parsed)]_vars

\* An execution of two entries in which the scorer raised has ended in
\* success, its entries stored unscored.
C9_Witness ==
    \E e \in Execs :
        /\ Exec(e).scorer_raised
        /\ Exec(e).pc = "done" /\ Exec(e).result = "SUCCESS"
        /\ Len(Exec(e).scored_logs) = 2
        /\ \A doc \in InsertedBy(e) : doc.anomaly_score = 0
        /\ Cardinality(InsertedBy(e)) = 2

\* C10: an execution in which the parser signalled the size limit, or the
\* insert or the "completed" update raised, ends with the job's stored
\* status failed and its error the text of that exception.
C10_FailureMarksJobFailed ==
    [][\A e \in Execs :
            (/\ Finishes(e)
             /\ Exec(e).exc \in PersistenceErrors \cup {SizeLimitExceeded})
                => LET job == JobOf(jobs', msgs[e[1]].job_id)
                   IN  /\ job.status = "failed"
                       /\ Get(job, "error", "None") = Exec(e).exc]_vars

\* Execution e has been picked up and has not yet ended.
Running(e) == Exec(e).pc # "done"

\* C11: at most one execution of process_log_file for a given job id is
\* under way at any time: two executions of the same job id, redelivered
\* ones included, are never both between pick-up and end.
C11_NoOverlap ==
    \A e, f \in Execs :
        (e # f /\ msgs[e[1]].job_id = msgs[f[1]].job_id)
            => ~(Running(e) /\ Running(f))

RECURSIVE Created(_)
\* The requests among 1..n whose insert_one succeeded.
Created(n) ==
    IF n = 0 THEN 0
    ELSE Created(n - 1) + (IF requests[n].pc = "insert_failed" THEN 0 ELSE 1)

\* The request whose insert_one made the document jobs[i].
CreatorOf(i) ==
    CHOOSE r \in 1..Len(requests) :
        requests[r].pc # "insert_failed" /\ Created(r) = i

\* C12: jobs are isolated: a Job document is updated only by executions of
\* the task of the submission that created it, and a completed document
\* counts the entries of that submission's content, as it does when the job
\* runs alone.
C12_JobsIsolated ==
    \A i \in 1..Len(jobs) :
        /\ writer[i] # NoExec
            => msgs[writer[i][1]] = task_message(requests[CreatorOf(i)])
        /\ jobs[i].status = "completed"
            => jobs[i].processed_count
                    = Len(parse_file(requests[CreatorOf(i)].content))

\* C13: every document in db.logs carries the job id of the task whose
\* execution inserted it.
C13_LogsCarryJobId ==
    \A doc \in logs :
        /\ "job_id" \in DOMAIN doc
        /\ doc.job_id = msgs[doc._id[1][1]].job_id

\* The lines of content that are not blank.
NonBlank(content) == {k \in 1..Len(content) : content[k] # "blank"}

\* C14: a completed job's processed_count is the number of non-blank lines
\* of the content whose execution completed it: blank lines are not counted,
\* and every line with no recognisable timestamp is counted and stored as an
\* UNKNOWN entry, whether or not the scorer raised.
C14_CountIsNonBlankLines ==
    \A i \in 1..Len(jobs) :
        jobs[i].status = "completed" =>
            LET content == msgs[writer[i][1]].content
            IN  /\ jobs[i].processed_count = Cardinality(NonBlank(content))
                /\ \A k \in 1..Len(content) :
                        content[k] = "garbage" =>
                            \E doc \in InsertedBy(writer[i]) :
                                doc.line = k /\ doc.level = "UNKNOWN"

\* A job completed with a count of one for a content of a blank line and a
\* line with no recognisable timestamp, in an execution whose scorer raised.
C14_Witness ==
    \E i \in 1..Len(jobs) :
        /\ jobs[i].status = "completed"
        /\ jobs[i].processed_count = 1
        /\ msgs[writer[i][1]].content = <<"blank", "garbage">>
        /\ Exec(writer[i]).scorer_raised

\* The score 1.0, in tenths.
ScoreOne == 10

IsToken(event) == "token" \in DOMAIN event

IsTerminal(event) ==
    /\ "done" \in DOMAIN event /\ event.done = TRUE
    /\ "result" \in DOMAIN event

\* C16: the events an /ask-ai stream has sent are token events in order,
\* at most as many as the response text has words, and the terminal event
\* with done = true can only be the last of them; the stream has ended
\* exactly when it has sent the terminal event, and until then it can always
\* take its next step, also after the fetch or the analysis has raised.
C16_StreamEndsWithOneTerminal ==
    LET events == stream.events
    IN  /\ \A k \in 1..Len(events) :
            /\ IsToken(events[k]) \/ IsTerminal(events[k])
            /\ IsToken(events[k]) => events[k].token = k
            /\ IsTerminal(events[k]) => k = Len(events)
        /\ Len(events) <= stream.words + 1
        /\ stream.pc = "done"
            <=> (events # <<>> /\ IsTerminal(events[Len(events)]))
        /\ stream.pc \notin {"idle", "done"} => ENABLED AskStep

\* A stream has ended with no token and the error of the fetch in its
\* terminal event.
C16_Witness ==
    /\ stream.pc = "done"
    /\ Len(stream.events) = 1
    /\ "error" \in DOMAIN stream.events[1].result

\* The collaborator's call raised or its reply was not JSON.
CollaboratorFailed == stream.reply \in {"raises", "not_json"}

\* C17: when the collaborator's call raises or its reply is not JSON, the
\* analysis does not raise and is the fallback object (confidence LOW,
\* severity HIGH, no affected services), and the terminal event of the stream
\* carries a result with the fallback's cause, impact and solution and no
\* error.
C17_FallbackOnCollaboratorFailure ==
    CollaboratorFailed =>
        /\ stream.pc # "ai_raised"
        /\ stream.analysis = [kind |-> "object", fields |-> Fallback]
        /\ stream.analysis.fields.confidence = "LOW"
        /\ stream.analysis.fields.severity = "HIGH"
        /\ stream.analysis.fields.affected_services = {}
        /\ stream.pc = "done" =>
            LET result == stream.events[Len(stream.events)].result
            IN  /\ "error" \notin DOMAIN result
                /\ {"cause", "impact", "solution"} \subseteq DOMAIN result
                /\ result.cause = Fallback.cause
                /\ result.impact = Fallback.impact
                /\ result.solution = Fallback.solution

\* A stream has ended after the collaborator's reply was not JSON.
C17_Witness ==
    /\ stream.reply = "not_json"
    /\ stream.pc = "done"
    /\ Len(stream.events) = stream.words + 1

\* An execution of a task of job_id has been picked up and has not ended.
BeingExecuted(job_id) ==
    \E e \in Execs : msgs[e[1]].job_id = job_id /\ Running(e)

\* C18 as stated: a status query made while a worker is executing the job
\* answers with a status other than that of a job waiting in the queue.
C18_RunningJobIsDistinguished ==
    (/\ response # NoResponse
     /\ response.status_code = 200
     /\ BeingExecuted(response.job_id))
        => response.status # "queued"

\* C18, amended: no Job document ever has the status processing and no
\* status query answers it; a query made while a worker is executing the job,
\* before any execution has updated the Job document, answers queued, as it
\* does for a job waiting in the queue.
C18_RunningJobReportsQueued ==
    /\ \A i \in 1..Len(jobs) : jobs[i].status # "processing"
    /\ (response # NoResponse /\ response.status_code = 200) =>
        /\ response.status # "processing"
        /\ (/\ BeingExecuted(response.job_id)
            /\ writer[FirstMatch(jobs, response.job_id)] = NoExec)
                => response.status = "queued"

\* A status query answers queued while an execution of the job has inserted
\* its entries and has not yet updated the Job document.
C18_Witness ==
    /\ response # NoResponse
    /\ response.status_code = 200
    /\ response.status = "queued"
    /\ \E e \in Execs :
        /\ msgs[e[1]].job_id = response.job_id
        /\ Exec(e).pc = "complete"
        /\ InsertedBy(e) # {}

\* C19: a completed Job document has no error recorded and a failed one has
\* a non-empty error, also after redelivery and re-execution.
C19_ErrorMatchesStatus ==
    \A i \in 1..Len(jobs) :
        /\ jobs[i].status = "completed" => Get(jobs[i], "error", "None") = "None"
        /\ jobs[i].status = "failed"
                => Get(jobs[i], "error", "None") \notin {"None", ""}

\* C20: every queued Job document whose upload is over has a task of its
\* submission in the queue or being executed, and an upload whose hand-off to
\* the queue failed leaves no Job document behind.
C20_QueuedJobHasTask ==
    /\ \A i \in 1..Len(jobs) :
            (jobs[i].status = "queued" /\ requests[CreatorOf(i)].pc # "created")
                => \E m \in 1..Len(msgs) :
                    /\ msgs[m] = task_message(requests[CreatorOf(i)])
                    /\ \/ pending[m] > 0
                       \/ \E d \in 1..Len(execs[m]) : Running(<<m, d>>)
    /\ \A i \in 1..Len(jobs) : requests[CreatorOf(i)].pc # "dispatch_failed"

\* C21: the queued Job document is stored before its task can be seen by a
\* worker: every task message has a Job document of its job id, an upload
\* step never changes a document already stored, and an execution that ends
\* with the completed update finds the document and leaves it completed, with
\* itself as the last writer.
C21_JobStoredBeforeTask ==
    [][/\ \A m \in 1..Len(msgs') : HasJob(jobs', msgs'[m].job_id)
       /\ requests' # requests
            => \A i \in 1..Len(jobs) : jobs'[i] = jobs[i]
       /\ \A e \in Execs :
            (Finishes(e) /\ execs'[e[1]][e[2]].result = "SUCCESS")
                => /\ HasJob(jobs, msgs[e[1]].job_id)
                   /\ JobOf(jobs', msgs[e[1]].job_id).status = "completed"
                   /\ writer'[FirstMatch(jobs', msgs[e[1]].job_id)] = e]_vars

\* An execution has completed its job while another upload is between its
\* insert and its hand-off.
C21_Witness ==
    /\ \E e \in Execs : Exec(e).pc = "done" /\ Exec(e).result = "SUCCESS"
    /\ \E r \in 1..Len(requests) : requests[r].pc = "created"
    /\ \E i \in 1..Len(jobs) : jobs[i].status = "completed"

\* The entries of execution e that are in db.logs, by their position.
StoredEntries(e) == {doc._id[2] : doc \in InsertedBy(e)}

\* C22: when an execution of a task ends in success and another execution of
\* the same task has ended in success before and was the last to write the
\* Job document, db.logs holds every entry of the batch twice, once for each
\* execution, and the Job document is left as it was.
C22_ReexecutionDuplicatesLogs ==
    [][\A e, f \in Execs :
            (/\ e # f /\ e[1] = f[1]
             /\ Finishes(e) /\ execs'[e[1]][e[2]].result = "SUCCESS"
             /\ Exec(f).pc = "done" /\ Exec(f).result = "SUCCESS"
             /\ writer[FirstMatch(jobs, msgs[e[1]].job_id)] = f)
                => LET n == Len(parse_file(msgs[e[1]].content))
                   IN  /\ StoredEntries(e) = 1..n
                       /\ StoredEntries(f) = 1..n
                       /\ Cardinality({doc \in logs' : doc._id[1] \in {e, f}})
                            = 2 * n
                       /\ jobs' = jobs]_vars

\* A task of two entries has been executed to the end twice and db.logs
\* holds four documents.
C22_Witness ==
    \E m \in 1..Len(msgs) :
        /\ Len(execs[m]) = 2
        /\ \A d \in 1..2 :
            execs[m][d].pc = "done" /\ execs[m][d].result = "SUCCESS"
        /\ Cardinality(logs) = 4

\* C23: an execution in which the parser signalled the size limit inserts
\* nothing: it has no document in db.logs, and its steps leave db.logs as it
\* is and change no Job document but the one of its job id.
C23_ParseFailureInsertsNothing ==
    [][\A e \in Execs :
            Exec(e).exc = SizeLimitExceeded =>
                /\ InsertedBy(e) = {}
                /\ execs'[e[1]][e[2]] # Exec(e) =>
                    /\ logs' = logs
                    /\ \A i \in 1..Len(jobs) :
                        i # FirstMatch(jobs, msgs[e[1]].job_id)
                            => jobs'[i] = jobs[i]]_vars

\* An execution of an oversize upload has ended, the job is failed with the
\* parser's error and db.logs is empty.
C23_Witness ==
    \E e \in Execs :
        /\ Exec(e).pc = "done"
        /\ Exec(e).exc = SizeLimitExceeded
        /\ JobOf(jobs, msgs[e[1]].job_id).status = "failed"
        /\ JobOf(jobs, msgs[e[1]].job_id).error = SizeLimitExceeded
        /\ logs = {}

\* C24: an execution ends as a task failure exactly when it went through
\* the handler that writes failed; the step in which an execution writes
\* completed ends it as a success, the step in which it writes failed ends it
\* as a failure, and an execution that has ended takes no further step, so
\* none writes both.
C24_FailureReportedIffFailedPath ==
    [][\A e \in Execs :
            LET after == execs'[e[1]][e[2]]
                i == FirstMatch(jobs, msgs[e[1]].job_id)
            IN  /\ after.pc = "done"
                    => (after.result = "FAILURE" <=> after.exc # "None")
                /\ after.pc = "done"
                    => (after.result = "SUCCESS" <=> after.exc = "None")
                /\ (writer'[i] = e /\ writer[i] # e) =>
                    /\ after.pc = "done"
                    /\ jobs'[i].status = "completed"
                            => after.result = "SUCCESS"
                    /\ jobs'[i].status = "failed"
                            => after.result = "FAILURE"
                /\ Exec(e).pc = "done" => after = Exec(e)]_vars

\* One execution has ended as a failure with the job failed, and the
\* redelivered one as a success with the job completed.
C24_Witness ==
    \E m \in 1..Len(msgs) :
        /\ Len(execs[m]) = 2
        /\ execs[m][1].pc = "done" /\ execs[m][1].result = "FAILURE"
        /\ execs[m][2].pc = "done" /\ execs[m][2].result = "SUCCESS"
        /\ writer[FirstMatch(jobs, msgs[m].job_id)] = <<m, 2>>
        /\ JobOf(jobs, msgs[m].job_id).status = "completed"

\* C25: a status query changes nothing in the store, the broker or the
\* executions; it answers 404 exactly when no Job document has the job id,
\* and for a Job document no execution has written it answers queued with
\* processed_count 0 and no error.
C25_StatusQueryReadsOnly ==
    [][response'.status_code # 0 =>
            /\ UNCHANGED <<clock, requests, jobs, logs, msgs, pending, execs,
                           writer, stream, analyzer>>
            /\ response'.status_code \in {200, 404}
            /\ response'.status_code = 404
                    <=> ~HasJob(jobs, response'.job_id)
            /\ (/\ response'.status_code = 200
                /\ writer[FirstMatch(jobs, response'.job_id)] = NoExec)
                    => /\ response'.status = "queued"
                       /\ response'.processed_count = 0
                       /\ response'.error = "None"]_vars

\* A query for a job id nobody was given is answered 404 while the store
\* holds other jobs, one of them with its execution under way.
C25_Witness ==
    /\ response.status_code = 404
    /\ jobs # <<>>
    /\ \E e \in Execs : Exec(e).pc # "done"

\* The requests at position pc.
RequestsAt(pc) == {r \in 1..Len(requests) : requests[r].pc = pc}

\* C26: an upload is rejected exactly when its file name ends in neither
\* .log nor .txt, with 400, or else its size is above 10 MiB, with 413; a
\* file of exactly 10 MiB with a good name is not rejected. The rejected
\* uploads have no Job document and no task: db.jobs holds one document for
\* each accepted upload whose insert succeeded, and the broker was given one
\* message for each upload that returned.
C26_RejectedUploadStoresNothing ==
    /\ \A r \in 1..Len(requests) :
        LET req == requests[r]
            good_name == req.filename \in {"app.log", "notes.txt"}
        IN  /\ req.pc = "rejected"
                <=> (~good_name \/ req.size > 10485760)
            /\ (req.pc = "rejected" /\ ~good_name) => req.status_code = 400
            /\ (req.pc = "rejected" /\ good_name) => req.status_code = 413
            /\ (good_name /\ req.size = 10485760) => req.pc # "rejected"
    /\ Len(jobs) = Cardinality(RequestsAt("created") \cup RequestsAt("returned")
                                \cup RequestsAt("dispatch_failed"))
    /\ Len(msgs) = Cardinality(RequestsAt("returned"))
    /\ \A m \in 1..Len(msgs) :
        \E r \in RequestsAt("returned") : msgs[m] = task_message(requests[r])

\* One upload of more than 10 MiB was rejected with 413 and one of exactly
\* 10 MiB has returned; the store holds one job and the broker one task.
C26_Witness ==
    /\ \E r \in RequestsAt("rejected") :
        requests[r].status_code = 413 /\ requests[r].size = 10485761
    /\ \E r \in RequestsAt("returned") : requests[r].size = 10485760
    /\ Len(jobs) = 1
    /\ Len(msgs) = 1

\* The response is one of GET /logs.
LogsResponse(resp) == resp.status_code = 200 /\ "logs" \in DOMAIN resp

\* The document satisfies every filter the query gives.
Satisfies(doc, q) ==
    /\ q.service # "" => doc.service = q.service
    /\ q.level # "" => doc.level = q.level
    /\ q.min_anomaly_score # NoScore
        => doc.anomaly_score >= q.min_anomaly_score
    /\ q.start_time # NoTime
        => doc.timestamp # NoTime /\ doc.timestamp >= q.start_time
    /\ q.end_time # NoTime
        => doc.timestamp # NoTime /\ doc.timestamp <= q.end_time

\* C27: every log a /logs query returns satisfies each filter the query
\* gives, both time bounds when both are given, and total counts exactly
\* the stored logs that satisfy all of them.
C27_EveryFilterApplied ==
    LogsResponse(response) =>
        /\ \A k \in 1..Len(response.logs) :
            Satisfies(response.logs[k], response.request)
        /\ response.total =
            Cardinality({doc \in logs : Satisfies(doc, response.request)})

\* The same filters and page size.
SameListing(q1, q2) ==
    [q1 EXCEPT !.page = 1] = [q2 EXCEPT !.page = 1]

\* C28: a page holds the logs at ranks (p-1)s+1 .. min(ps, n) of the n
\* matching logs by descending timestamp: it has that many logs, in
\* descending order, all of them matching; total is n and pages is n over s
\* rounded up; a page beyond the last is empty; and the pages of one
\* listing hold every matching log exactly once: two different pages share
\* no log.
C28_PagesPartitionTheListing ==
    [][LogsResponse(response') =>
        LET q == response'.request
            n == Cardinality({doc \in logs : matches(doc, filter_query(q))})
            first == (q.page - 1) * q.page_size + 1
            last == Min(q.page * q.page_size, n)
            page == response'.logs
        IN  /\ response'.total = n
            /\ response'.pages * q.page_size >= n
            /\ (response'.pages - 1) * q.page_size < n \/ response'.pages = 0
            /\ n = 0 <=> response'.pages = 0
            /\ Len(page) = IF first <= last THEN last - first + 1 ELSE 0
            /\ q.page > response'.pages => page = <<>>
            /\ \A i, j \in 1..Len(page) :
                i < j => page[i].timestamp >= page[j].timestamp
            /\ (/\ LogsResponse(response)
                /\ SameListing(response.request, q)
                /\ response.request.page # q.page)
                    => \A i \in 1..Len(response.logs), j \in 1..Len(page) :
                        response.logs[i] # page[j]]_vars

C30_SearchReturnsAtMostK ==
    LET result == analyzer.result
    IN  result.status # "none" =>
            /\ result.status = "returned"
            /\ Len(result.ids) <= result.k
            /\ \A j \in 1..Len(result.ids) :
                \E i \in DOMAIN analyzer.id_map :
                    analyzer.id_map[i] = result.ids[j]
            /\ \A i, j \in 1..Len(result.labels) :
                i < j => analyzer.index[result.labels[i]] * result.query
                            >= analyzer.index[result.labels[j]] * result.query
            /\ ~analyzer.built => result.ids = <<>>

====
